---- MODULE Spec2Model ----
(***************************************************************************)
(* Stateful hash-based signature samples (HSS, XMSS, XMSS^MT): the sign    *)
(* and detach programs as processes over a shared file system.             *)
(*                                                                         *)
(* A private key state is a cursor over the leaves 0 .. TotalLeaves-1. A   *)
(* state blob on disk is the record [kind, next, end, max]: it owns the    *)
(* leaves next .. end-1 (remaining = end - next), max is the maximum       *)
(* signature count the engine reports.  The toolkit engine (the iqr_XMSS   *)
(* and iqr_HSS calls) is an external library: it is modelled from          *)
(* section 4.1 of the specification.                                       *)
(*                                                                         *)
(* Files change only through save_data(): fopen(fname, "wb") truncates the *)
(* file, fwrite() fills it, fclose() flushes it.  A process can be killed  *)
(* between any two steps.                                                  *)
(***************************************************************************)
EXTENDS Integers, FiniteSets, Sequences, TLC

\* ------------------------------------------------------------------------
\* Bounds
\* ------------------------------------------------------------------------

\* leaves of the key (2^height in the programs)
TotalLeaves == 2

\* largest --num-sigs value a detach run is started with
MaxNumSigs == 2

\* leaves of the fresh key that is signed with until it is depleted
FreshLeaves == 3

\* longest command line (arguments after the program name)
MaxArgs == 4

Procs == {1, 2}

Leaves == 0 .. (TotalLeaves - 1)

\* ------------------------------------------------------------------------
\* Return values and exit codes
\* ------------------------------------------------------------------------

IQR_OK == "IQR_OK"
IQR_EBADVALUE == "IQR_EBADVALUE"
IQR_ENOMEM == "IQR_ENOMEM"
IQR_ESTATEDEPLETED == "IQR_ESTATEDEPLETED"

\* errors raised inside the engine (section 7 of the specification)
InvalidParameterError == "InvalidParameterError"
ImportError == "ImportError"
InsufficientCapacityError == "InsufficientCapacityError"
CryptoEngineError == "CryptoEngineError"
SignatureRejected == "SignatureRejected"

EXIT_SUCCESS == "EXIT_SUCCESS"
EXIT_FAILURE == "EXIT_FAILURE"

\* ------------------------------------------------------------------------
\* Files
\* ------------------------------------------------------------------------

\* the default of --state, the default of --detached-state, and a second
\* detached state file for detaching from a detached state
StateFiles == {"priv.state", "detached.state", "detached2.state"}

\* the --detached-state arguments a detach run on state file f is started
\* with: the file that holds the states detached from f, or f itself
Child(f) ==
    IF f = "priv.state" THEN "detached.state" ELSE "detached2.state"

DetachTargets(f) == {f, Child(f)}

Blob(k, n, e, m) == [kind |-> k, next |-> n, end |-> e, max |-> m]

\* no such file; a file cut short: fewer bytes than a blob has (none, after
\* fopen(fname, "wb"), or a first part of the blob being written)
Absent == Blob("absent", 0, 0, 0)
Truncated == Blob("truncated", 0, 0, 0)

\* a NULL pointer (state_raw, state, detached_state before they are set)
Null == Blob("null", 0, 0, 0)

StateBlob(n, e, m) == Blob("state", n, e, m)

IsState(b) == b.kind = "state"

SigBlob(k, l, f) == [kind |-> k, leaf |-> l, from |-> f]

NoLeaf == -1

SigAbsent == SigBlob("absent", NoLeaf, "none")

\* a NULL pointer (sig before load_data has set it)
SigNull == SigBlob("null", NoLeaf, "none")
SigTruncated == SigBlob("truncated", NoLeaf, "none")

\* ------------------------------------------------------------------------
\* The engine (external library, modelled from section 4.1)
\* ------------------------------------------------------------------------

\* signature_count(state) -> (max, remaining)
Remaining(s) == s.end - s.next

\* import_state: fails on a size mismatch, that is on every file content
\* that is not a complete blob
EngineImportState(raw) ==
    IF IsState(raw) THEN [ret |-> IQR_OK, state |-> raw]
    ELSE [ret |-> ImportError, state |-> Null]

\* sign: fails with the state-depleted error when remaining = 0, with no
\* mutation; otherwise signs with leaf next and advances the cursor
EngineSign(s) ==
    IF Remaining(s) = 0
    THEN [ret |-> IQR_ESTATEDEPLETED, state |-> s, leaf |-> NoLeaf]
    ELSE [ret |-> IQR_OK,
          state |-> [s EXCEPT !.next = s.next + 1],
          leaf |-> s.next]

\* detach_state(n): fails when n > remaining; otherwise the detached state
\* owns next .. next+n-1 with total n, and the parent's cursor advances by n
EngineDetachState(s, n) ==
    IF n > Remaining(s)
    THEN [ret |-> InsufficientCapacityError, state |-> s, detached |-> Null]
    ELSE [ret |-> IQR_OK,
          state |-> [s EXCEPT !.next = s.next + n],
          detached |-> StateBlob(s.next, s.next + n, n)]

\* export_state: the blob of the in-memory state
EngineExportState(s) == StateBlob(s.next, s.end, s.max)

\* verify(public_key, digest, signature): pure; a complete signature of
\* the key verifies, every other content of the signature file does not
EngineVerify(sig) ==
    IF sig.kind = "sig" THEN IQR_OK ELSE SignatureRejected

\* ------------------------------------------------------------------------
\* save_data()
\* ------------------------------------------------------------------------

\* What fwrite() and fclose() make of a file that fopen() truncated:
\*   "written"    all bytes reached the file
\*   "ferror"     fwrite failed and ferror() reports it: the file keeps the
\*                part written before the failure
\*   "flush_lost" fwrite buffered the data and ferror() is 0, the flush in
\*                fclose() failed: its return value is not looked at
SaveOutcomes == {"written", "ferror", "flush_lost"}

\* the value save_data returns once the file is open
SaveRet(outcome) == IF outcome = "ferror" THEN IQR_EBADVALUE ELSE IQR_OK

\* content of a state file after fwrite/fclose with this outcome
SavedState(outcome, data) == IF outcome = "written" THEN data ELSE Truncated

\* content of the signature file after fwrite/fclose with this outcome
SavedSig(outcome, data) == IF outcome = "written" THEN data ELSE SigTruncated

\* ------------------------------------------------------------------------
\* Control flow of the showcase functions: the step after pc when the step
\* at pc returned IQR_OK (every step that fails jumps to the end label)
\* ------------------------------------------------------------------------

Programs == {"xmss_sign", "hss_sign", "xmss_detach"}

SignPrograms == {"xmss_sign", "hss_sign"}

\* the programs of the concurrent runs
ConcPrograms == {"xmss_sign", "xmss_detach"}

\* Faulty order: the signature is saved before the state.
SignFlow_SigFirst(prog, pc) ==
    CASE pc = "create_params" -> "load_priv"
      [] pc = "load_priv" -> "load_state"
      [] pc = "load_state" -> "import_priv"
      [] pc = "import_priv" -> "import_state"
      [] pc = "import_state" ->
            IF prog = "xmss_sign" THEN "get_count" ELSE "alloc_sig"
      [] pc = "get_count" -> "alloc_sig"
      [] pc = "alloc_sig" -> "sign"
      [] pc = "sign" -> "save_sig"
      [] pc = "save_sig" -> "write_sig"
      [] pc = "write_sig" -> "export_state"
      [] pc = "export_state" -> "save_state"
      [] pc = "save_state" -> "write_state"
      [] pc = "write_state" -> "final_count"
      [] OTHER -> "end"

\* Faulty flow: the signature is never saved.
SignFlow_NoSigSave(prog, pc) ==
    CASE pc = "create_params" -> "load_priv"
      [] pc = "load_priv" -> "load_state"
      [] pc = "load_state" -> "import_priv"
      [] pc = "import_priv" -> "import_state"
      [] pc = "import_state" ->
            IF prog = "xmss_sign" THEN "get_count" ELSE "alloc_sig"
      [] pc = "get_count" -> "alloc_sig"
      [] pc = "alloc_sig" -> "sign"
      [] pc = "sign" -> "export_state"
      [] pc = "export_state" -> "save_state"
      [] pc = "save_state" -> "write_state"
      [] pc = "write_state" -> "final_count"
      [] OTHER -> "end"

\* Faulty flow: the advanced state is never saved.
SignFlow_NoStateSave(prog, pc) ==
    CASE pc = "create_params" -> "load_priv"
      [] pc = "load_priv" -> "load_state"
      [] pc = "load_state" -> "import_priv"
      [] pc = "import_priv" -> "import_state"
      [] pc = "import_state" ->
            IF prog = "xmss_sign" THEN "get_count" ELSE "alloc_sig"
      [] pc = "get_count" -> "alloc_sig"
      [] pc = "alloc_sig" -> "sign"
      [] pc = "sign" -> "save_sig"
      [] pc = "save_sig" -> "write_sig"
      [] pc = "write_sig" -> "final_count"
      [] OTHER -> "end"

\* showcase_xmss_sign, showcase_hss_sign: xmss_sign queries the signature
\* count between the import and the allocation, hss_sign does not
SignFlow(prog, pc) ==
    CASE pc = "create_params" -> "load_priv"
      [] pc = "load_priv" -> "load_state"
      [] pc = "load_state" -> "import_priv"
      [] pc = "import_priv" -> "import_state"
      [] pc = "import_state" ->
            IF prog = "xmss_sign" THEN "get_count" ELSE "alloc_sig"
      [] pc = "get_count" -> "alloc_sig"
      [] pc = "alloc_sig" -> "sign"
      [] pc = "sign" -> "export_state"
      [] pc = "export_state" -> "save_state"
      [] pc = "save_state" -> "write_state"
      [] pc = "write_state" -> "save_sig"
      [] pc = "save_sig" -> "write_sig"
      [] pc = "write_sig" -> "final_count"
      [] OTHER -> "end"

\* Faulty flow: the parent's advanced state is never saved.
DetachFlow_NoParentSave(pc) ==
    CASE pc = "create_params" -> "load_priv"
      [] pc = "load_priv" -> "load_state"
      [] pc = "load_state" -> "import_priv"
      [] pc = "import_priv" -> "import_state"
      [] pc = "import_state" -> "detach"
      [] pc = "detach" -> "detach_counts"
      [] pc = "detach_counts" -> "export_detached"
      [] pc = "export_detached" -> "save_detached"
      [] pc = "save_detached" -> "write_detached"
      [] OTHER -> "end"

\* Faulty order: the detached state is saved before the parent's state.
DetachFlow_DetachedFirst(pc) ==
    CASE pc = "create_params" -> "load_priv"
      [] pc = "load_priv" -> "load_state"
      [] pc = "load_state" -> "import_priv"
      [] pc = "import_priv" -> "import_state"
      [] pc = "import_state" -> "detach"
      [] pc = "detach" -> "detach_counts"
      [] pc = "detach_counts" -> "export_detached"
      [] pc = "export_detached" -> "save_detached"
      [] pc = "save_detached" -> "write_detached"
      [] pc = "write_detached" -> "export_state"
      [] pc = "export_state" -> "save_state"
      [] pc = "save_state" -> "write_state"
      [] OTHER -> "end"

\* showcase_xmss_detach, showcase_xmssmt_detach
DetachFlow(pc) ==
    CASE pc = "create_params" -> "load_priv"
      [] pc = "load_priv" -> "load_state"
      [] pc = "load_state" -> "import_priv"
      [] pc = "import_priv" -> "import_state"
      [] pc = "import_state" -> "detach"
      [] pc = "detach" -> "detach_counts"
      [] pc = "detach_counts" -> "export_state"
      [] pc = "export_state" -> "save_state"
      [] pc = "save_state" -> "write_state"
      [] pc = "write_state" -> "export_detached"
      [] pc = "export_detached" -> "save_detached"
      [] pc = "save_detached" -> "write_detached"
      [] OTHER -> "end"

\* showcase_xmssmt_verify
VerifyFlow(pc) ==
    CASE pc = "create_params" -> "load_pub"
      [] pc = "load_pub" -> "load_sig"
      [] pc = "load_sig" -> "import_pub"
      [] pc = "import_pub" -> "verify"
      [] OTHER -> "end"

\* main calls the showcase function after init_toolkit
NextPc(prog, pc) ==
    IF pc = "init_toolkit" THEN "create_params"
    ELSE IF prog \in SignPrograms THEN SignFlow(prog, pc)
    ELSE IF prog = "xmssmt_verify" THEN VerifyFlow(pc)
    ELSE DetachFlow(pc)

\* Faulty check: the value iqr_XMSSImportState returns is not looked at.
After_IgnoreImportError(prog, pc, ret) ==
    IF ret = IQR_OK \/ pc = "import_state" THEN NextPc(prog, pc) ELSE "end"

\* Faulty check: the value iqr_XMSSDetachState returns is not looked at.
After_IgnoreDetachError(prog, pc, ret) ==
    IF ret = IQR_OK \/ pc = "detach" THEN NextPc(prog, pc) ELSE "end"

\* Faulty recovery: after a failed save of the state the engine is called
\* again, with the state in memory.
After_RetryEngine(prog, pc, ret) ==
    IF ret = IQR_OK THEN NextPc(prog, pc)
    ELSE IF pc \in {"save_state", "write_state"}
         THEN IF prog \in SignPrograms THEN "sign" ELSE "detach"
         ELSE "end"

\* Faulty check: the value save_data(state_file) returns is not looked at.
After_IgnoreStateSave(prog, pc, ret) ==
    IF ret = IQR_OK THEN NextPc(prog, pc)
    ELSE IF pc \in {"save_state", "write_state"}
         THEN NextPc(prog, "write_state")
         ELSE "end"

\* the step taken after a step that returned ret
After(prog, pc, ret) == IF ret = IQR_OK THEN NextPc(prog, pc) ELSE "end"

\* ------------------------------------------------------------------------
\* State
\* ------------------------------------------------------------------------

VARIABLES
    files,      \* content of each state file
    sigfile,    \* content of the signature file (sig.dat)
    run,        \* each process's run: arguments, locals, position
    exit,       \* exit code of each process's last run
    relCount,   \* history: how often a signature of each leaf was released
    lastRel     \* history: per state file, the last leaf released from it

vars == <<files, sigfile, run, exit, relCount, lastRel>>

\* How a raw buffer was freed: "none" it was NULL, "wiped" it was
\* overwritten with zeros over its size and then freed, "unwiped" it was
\* freed with the bytes of the key or of a state in it.  load_tmp is the
\* buffer load_data reads a file into before it hands it to its caller.
NoneFreed == [priv_raw |-> "none", state_raw |-> "none", load_tmp |-> "none"]

\* a process that runs no program
Idle ==
    [prog |-> "none", pc |-> "idle",
     argv |-> <<>>,            \* the command line, until main has parsed it
     state_file |-> "priv.state", detached_state_file |-> "priv.state",
     num_signatures |-> 0,
     priv_raw |-> "null",      \* "key" once load_data has filled it
     state_raw |-> Null, state |-> Null, detached_state |-> Null,
     sig |-> NoLeaf, ret |-> IQR_OK,
     sig_raw |-> SigNull,      \* verify: the signature load_data read
     \* history of the run
     loaded |-> Null,          \* the blob load_data read from state_file
     queried |-> FALSE,        \* capacity was queried before signing
     engine_calls |-> 0,       \* calls of the engine's sign or detach
     state_saved |-> "none",   \* what save_data(state_file) returned
     stored |-> NoLeaf,        \* the cursor the run stored in state_file
     sig_opened |-> FALSE,     \* the run opened sig_file for writing
     det_opened |-> FALSE,     \* the run opened detached_state_file
     freed |-> NoneFreed,      \* how the raw buffers were freed
     verified |-> SigNull]     \* the signature the verify call was given

\* after key generation: the state file holds the fresh state, there is no
\* detached state and no signature
Init ==
    /\ files = [f \in StateFiles |->
                  IF f = "priv.state" THEN StateBlob(0, TotalLeaves, TotalLeaves)
                  ELSE Absent]
    /\ sigfile = SigAbsent
    /\ run = [p \in Procs |-> Idle]
    /\ exit = [p \in Procs |-> "none"]
    /\ relCount = [l \in Leaves |-> 0]
    /\ lastRel = [f \in StateFiles |-> NoLeaf]

At(p, pc) == run[p].pc = pc

\* Faulty end label: priv_raw is freed as it is.
EndLabel_NoWipe(r) ==
    [priv_raw |-> IF r.priv_raw = "null" THEN "none" ELSE "unwiped",
     state_raw |-> IF r.state_raw = Null THEN "none" ELSE "unwiped",
     load_tmp |-> "none"]

\* The end label: secure_memzero(priv_raw, priv_raw_size) when priv_raw is
\* not NULL, then free(priv_raw) and free(state_raw); state_raw holds the
\* state that was loaded or the one that was exported last.
EndLabel(r) ==
    [priv_raw |-> IF r.priv_raw = "null" THEN "none" ELSE "wiped",
     state_raw |-> IF r.state_raw = Null THEN "none" ELSE "unwiped",
     load_tmp |-> "none"]

\* Control is at the end label: the arguments and the locals are not read
\* again (the buffers are freed, the engine objects destroyed); the run
\* keeps ret, its history, and num_sigs, which main holds until it returns.
AtEnd(r, ret) ==
    [Idle EXCEPT !.prog = r.prog, !.pc = "end", !.ret = ret,
                 !.freed = EndLabel(r), !.verified = r.verified,
                 !.num_signatures = r.num_signatures,
                 !.queried = r.queried, !.engine_calls = r.engine_calls,
                 !.state_saved = r.state_saved, !.sig_opened = r.sig_opened,
                 !.det_opened = r.det_opened]

\* the step at the current pc returned ret
Goto(r, ret) ==
    IF After(r.prog, r.pc, ret) = "end" THEN AtEnd(r, ret)
    ELSE [r EXCEPT !.ret = ret, !.pc = After(r.prog, r.pc, ret)]

\* ------------------------------------------------------------------------
\* main(): command line, toolkit initialisation
\* ------------------------------------------------------------------------

\* parse_commandline() failed: main returns EXIT_FAILURE at once
ParseFail(p) ==
    /\ At(p, "idle")
    /\ exit' = [exit EXCEPT ![p] = EXIT_FAILURE]
    /\ UNCHANGED <<files, sigfile, run, relCount, lastRel>>

\* parse_commandline() returned IQR_OK.  The arguments are fixed from here
\* on; the run record takes each of them (--state, --num-sigs,
\* --detached-state) in the step that first reads it.
Start(p, prog) ==
    /\ At(p, "idle")
    /\ run' = [run EXCEPT ![p] =
                 [Idle EXCEPT !.prog = prog, !.pc = "init_toolkit"]]
    /\ exit' = [exit EXCEPT ![p] = "none"]
    /\ UNCHANGED <<files, sigfile, relCount, lastRel>>

\* The words of the command lines: options, file names, numbers, and a
\* word that is none of these.
Tokens ==
    {"--state", "--detached-state", "--num-sigs", "--height",
     "priv.state", "1", "10", "4294967297", "junk"}

\* the options whose value is taken as a file name, as it is
FileOptions(prog) ==
    IF prog = "xmss_detach" THEN {"--state", "--detached-state"}
    ELSE {"--state"}

\* the values --height accepts
Heights(prog) ==
    IF prog = "hss_sign" THEN {"5", "10", "15", "20", "25"}
    ELSE {"10", "16", "20"}

\* strtoull(argv[i], &end, 10) with the test on end: whether the word is a
\* decimal number, and its 64-bit value as the high and the low 32 bits
Strtoull(word) ==
    CASE word = "1" -> [ok |-> TRUE, hi |-> 0, lo |-> 1]
      [] word = "10" -> [ok |-> TRUE, hi |-> 0, lo |-> 10]
      [] word = "4294967297" -> [ok |-> TRUE, hi |-> 1, lo |-> 1]
      [] OTHER -> [ok |-> FALSE, hi |-> 0, lo |-> 0]

\* main's defaults of the arguments the run reads
DefaultArgs ==
    [ret |-> IQR_OK, state |-> "priv.state",
     detached_state |-> "detached.state", num_signatures |-> 1]

\* the while loop of parse_commandline from argv[i] on; argv[0] is the
\* program name, so argc is Len(argv) + 1 and argv[i] is the i-th word
RECURSIVE ParseFrom(_, _, _, _)
ParseFrom(prog, argv, i, args) ==
    IF i = Len(argv) + 1 THEN args
    ELSE IF i + 2 > Len(argv) + 1 THEN [args EXCEPT !.ret = IQR_EBADVALUE]
    ELSE IF argv[i] = "--state"
         THEN ParseFrom(prog, argv, i + 2, [args EXCEPT !.state = argv[i + 1]])
    ELSE IF argv[i] = "--detached-state" /\ prog = "xmss_detach"
         THEN ParseFrom(prog, argv, i + 2,
                        [args EXCEPT !.detached_state = argv[i + 1]])
    ELSE IF argv[i] = "--height"
         THEN IF argv[i + 1] \in Heights(prog)
              THEN ParseFrom(prog, argv, i + 2, args)
              ELSE [args EXCEPT !.ret = IQR_EBADVALUE]
    ELSE IF argv[i] = "--num-sigs" /\ prog = "xmss_detach"
         THEN IF ~Strtoull(argv[i + 1]).ok
              THEN [args EXCEPT !.ret = IQR_EBADVALUE]
              ELSE ParseFrom(prog, argv, i + 2,
                             [args EXCEPT !.num_signatures =
                                 Strtoull(argv[i + 1]).lo])
    ELSE ParseFrom(prog, argv, i + 1, args)

parse_commandline(prog, argv) == ParseFrom(prog, argv, 1, DefaultArgs)

\* Faulty main: the value parse_commandline returns is not looked at.
ParseCommandline_IgnoresFailure(p) ==
    /\ At(p, "idle")
    /\ exit[p] = "none"
    /\ LET args == parse_commandline(run[p].prog, run[p].argv) IN
         run' = [run EXCEPT ![p] =
                   [Idle EXCEPT !.prog = run[p].prog,
                                !.pc = "init_toolkit",
                                !.state_file = args.state,
                                !.detached_state_file = args.detached_state,
                                !.num_signatures = args.num_signatures]]
    /\ UNCHANGED <<files, sigfile, exit, relCount, lastRel>>

\* main, from its defaults to the call of init_toolkit: the command line
\* of the process is parsed; main returns EXIT_FAILURE when that fails, and
\* goes on with the arguments otherwise
ParseCommandline(p) ==
    /\ At(p, "idle")
    /\ exit[p] = "none"
    /\ LET args == parse_commandline(run[p].prog, run[p].argv) IN
         IF args.ret # IQR_OK
         THEN /\ exit' = [exit EXCEPT ![p] = EXIT_FAILURE]
              /\ UNCHANGED run
         ELSE /\ run' = [run EXCEPT ![p] =
                   [Idle EXCEPT !.prog = run[p].prog,
                                !.pc = "init_toolkit",
                                !.state_file = args.state,
                                !.detached_state_file = args.detached_state,
                                !.num_signatures = args.num_signatures]]
              /\ UNCHANGED exit
    /\ UNCHANGED <<files, sigfile, relCount, lastRel>>

\* init_toolkit(): context, hash callbacks, RNG, message and digest; a
\* failure goes to main's cleanup label, past the showcase function
InitToolkit(p) ==
    /\ At(p, "init_toolkit")
    /\ \E ret \in {IQR_OK, CryptoEngineError, IQR_EBADVALUE} :
         run' = [run EXCEPT ![p] =
                   IF ret = IQR_OK THEN Goto(run[p], ret)
                   ELSE [AtEnd(run[p], ret) EXCEPT !.pc = "cleanup"]]
    /\ UNCHANGED <<files, sigfile, exit, relCount, lastRel>>

\* ------------------------------------------------------------------------
\* The showcase functions, up to the engine call
\* ------------------------------------------------------------------------

CreateParams(p) ==
    /\ At(p, "create_params")
    /\ \E ret \in {IQR_OK, InvalidParameterError} :
         run' = [run EXCEPT ![p] = Goto(run[p], ret)]
    /\ UNCHANGED <<files, sigfile, exit, relCount, lastRel>>

\* load_data(priv_file): the content of the private key file is not
\* modelled further.  fopen or calloc fails and there is no buffer; or fread
\* comes short and load_data frees the buffer it read into, as it is; or
\* priv_raw is the buffer with the key.
LoadPrivateKey(p) ==
    /\ At(p, "load_priv")
    /\ \/ run' = [run EXCEPT ![p] =
                    Goto([run[p] EXCEPT !.priv_raw = "key"], IQR_OK)]
       \/ run' = [run EXCEPT ![p] = Goto(run[p], IQR_EBADVALUE)]
       \/ run' = [run EXCEPT ![p] =
                    [Goto(run[p], IQR_EBADVALUE) EXCEPT
                        !.freed = [@ EXCEPT !.load_tmp = "unwiped"]]]
    /\ UNCHANGED <<files, sigfile, exit, relCount, lastRel>>

\* load_data(state_file), with sf the --state argument: fopen fails when
\* there is no file, calloc or fread can fail; otherwise the whole content
\* is read (an empty file gives NULL and size 0, with IQR_OK).  When fread
\* comes short, load_data frees the buffer it read into, as it is.
LoadState(p, sf) ==
    /\ At(p, "load_state")
    /\ LET content == files[sf] IN
       \/ /\ content # Absent
          /\ run' = [run EXCEPT ![p] =
                       Goto([run[p] EXCEPT !.state_file = sf,
                                           !.state_raw = content,
                                           !.loaded = content], IQR_OK)]
       \/ run' = [run EXCEPT ![p] = Goto(run[p], IQR_EBADVALUE)]
       \/ /\ IsState(content)
          /\ run' = [run EXCEPT ![p] =
                       [Goto(run[p], IQR_EBADVALUE) EXCEPT
                           !.freed = [@ EXCEPT !.load_tmp = "unwiped"]]]
    /\ UNCHANGED <<files, sigfile, exit, relCount, lastRel>>

ImportPrivateKey(p) ==
    /\ At(p, "import_priv")
    /\ \E ret \in {IQR_OK, ImportError} :
         run' = [run EXCEPT ![p] = Goto(run[p], ret)]
    /\ UNCHANGED <<files, sigfile, exit, relCount, lastRel>>

ImportState(p) ==
    /\ At(p, "import_state")
    /\ LET got == EngineImportState(run[p].state_raw) IN
         run' = [run EXCEPT ![p] =
                   Goto([run[p] EXCEPT !.state = got.state], got.ret)]
    /\ UNCHANGED <<files, sigfile, exit, relCount, lastRel>>

\* xmss_sign only: iqr_XMSSGetSignatureCount, then the remaining_sigs == 0
\* test that returns IQR_ESTATEDEPLETED
GetSignatureCount(p) ==
    /\ At(p, "get_count")
    /\ \/ run' = [run EXCEPT ![p] = Goto(run[p], CryptoEngineError)]
       \/ run' = [run EXCEPT ![p] =
                    Goto([run[p] EXCEPT !.queried = TRUE],
                         IF Remaining(run[p].state) = 0
                         THEN IQR_ESTATEDEPLETED ELSE IQR_OK)]
    /\ UNCHANGED <<files, sigfile, exit, relCount, lastRel>>

\* Faulty allocation: the signature file is created along with the buffer.
AllocSignature_CreatesFile(p) ==
    /\ At(p, "alloc_sig")
    /\ sigfile' = SigTruncated
    /\ \E ret \in {IQR_OK, CryptoEngineError, IQR_ENOMEM} :
         run' = [run EXCEPT ![p] = Goto(run[p], ret)]
    /\ UNCHANGED <<files, exit, relCount, lastRel>>

\* GetSignatureSize and calloc of the signature buffer
AllocSignature(p) ==
    /\ At(p, "alloc_sig")
    /\ \E ret \in {IQR_OK, CryptoEngineError, IQR_ENOMEM} :
         run' = [run EXCEPT ![p] = Goto(run[p], ret)]
    /\ UNCHANGED <<files, sigfile, exit, relCount, lastRel>>

\* history counters saturate: 0, 1, twice or more
Bump(n) == IF n < 2 THEN n + 1 ELSE n

\* iqr_XMSSSign / iqr_HSSSign: the engine's sign, or another failure of
\* the call (on a depleted state the error is always the depleted one)
Sign(p) ==
    /\ At(p, "sign")
    /\ LET got == EngineSign(run[p].state)
           called == [run[p] EXCEPT !.engine_calls = Bump(@)]
       IN
       \/ run' = [run EXCEPT ![p] =
                    Goto([called EXCEPT !.state = got.state,
                                        !.sig = got.leaf], got.ret)]
       \/ /\ got.ret = IQR_OK
          /\ run' = [run EXCEPT ![p] = Goto(called, CryptoEngineError)]
    /\ UNCHANGED <<files, sigfile, exit, relCount, lastRel>>

\* iqr_XMSSDetachState, with n the --num-sigs argument: the engine's
\* detach_state, or another failure of the call (with n above the remaining
\* count the error is always the insufficient-capacity one)
DetachState(p, n) ==
    /\ At(p, "detach")
    /\ LET got == EngineDetachState(run[p].state, n)
           called == [run[p] EXCEPT !.engine_calls = Bump(@),
                                    !.num_signatures = n]
       IN
       \/ run' = [run EXCEPT ![p] =
                    Goto([called EXCEPT !.state = got.state,
                                        !.detached_state = got.detached],
                         got.ret)]
       \/ /\ got.ret = IQR_OK
          /\ run' = [run EXCEPT ![p] = Goto(called, CryptoEngineError)]
    /\ UNCHANGED <<files, sigfile, exit, relCount, lastRel>>

\* the two GetSignatureCount calls after the detachment
DetachCounts(p) ==
    /\ At(p, "detach_counts")
    /\ \E ret \in {IQR_OK, CryptoEngineError} :
         run' = [run EXCEPT ![p] = Goto(run[p], ret)]
    /\ UNCHANGED <<files, sigfile, exit, relCount, lastRel>>

\* ------------------------------------------------------------------------
\* Persisting: the state first, then the signature or the detached state
\* ------------------------------------------------------------------------

\* Faulty export: the buffer is left as load_data filled it.
ExportState_Stale(p) ==
    /\ At(p, "export_state")
    /\ \E ret \in {IQR_OK, CryptoEngineError} :
         run' = [run EXCEPT ![p] = Goto(run[p], ret)]
    /\ UNCHANGED <<files, sigfile, exit, relCount, lastRel>>

\* ExportState(state, state_raw, state_raw_size)
ExportState(p) ==
    /\ At(p, "export_state")
    /\ \/ run' = [run EXCEPT ![p] =
                    Goto([run[p] EXCEPT
                            !.state_raw = EngineExportState(run[p].state)],
                         IQR_OK)]
       \/ run' = [run EXCEPT ![p] = Goto(run[p], CryptoEngineError)]
    /\ UNCHANGED <<files, sigfile, exit, relCount, lastRel>>

\* save_data(state_file, ...): fopen(fname, "wb") truncates the file, or
\* fails and leaves it alone
SaveStateOpen(p) ==
    /\ At(p, "save_state")
    /\ \/ /\ files' = [files EXCEPT ![run[p].state_file] = Truncated]
          /\ run' = [run EXCEPT ![p] = Goto(run[p], IQR_OK)]
       \/ /\ run' = [run EXCEPT ![p] =
                       Goto([run[p] EXCEPT !.state_saved = IQR_EBADVALUE],
                            IQR_EBADVALUE)]
          /\ UNCHANGED files
    /\ UNCHANGED <<sigfile, exit, relCount, lastRel>>

\* Faulty write: the state goes to the default state file, whatever the
\* --state argument is.
SaveStateWrite_DefaultFile(p) ==
    /\ At(p, "write_state")
    /\ \E outcome \in SaveOutcomes :
         /\ files' = [files EXCEPT !["priv.state"] =
                        SavedState(outcome, run[p].state_raw)]
         /\ run' = [run EXCEPT ![p] =
                      Goto([run[p] EXCEPT !.state_saved = SaveRet(outcome)],
                           SaveRet(outcome))]
    /\ UNCHANGED <<sigfile, exit, relCount, lastRel>>

\* save_data(state_file, ...): fwrite, ferror, fclose
SaveStateWrite(p) ==
    /\ At(p, "write_state")
    /\ \E outcome \in SaveOutcomes :
         /\ files' = [files EXCEPT ![run[p].state_file] =
                        SavedState(outcome, run[p].state_raw)]
         /\ run' = [run EXCEPT ![p] =
                      Goto([run[p] EXCEPT
                              !.state_saved = SaveRet(outcome),
                              !.stored = IF outcome = "written"
                                         THEN run[p].state_raw.next
                                         ELSE NoLeaf],
                           SaveRet(outcome))]
    /\ UNCHANGED <<sigfile, exit, relCount, lastRel>>

\* save_data(sig_file, ...): fopen
SaveSigOpen(p) ==
    /\ At(p, "save_sig")
    /\ \/ /\ sigfile' = SigTruncated
          /\ run' = [run EXCEPT ![p] =
                       Goto([run[p] EXCEPT !.sig_opened = TRUE], IQR_OK)]
       \/ /\ run' = [run EXCEPT ![p] = Goto(run[p], IQR_EBADVALUE)]
          /\ UNCHANGED sigfile
    /\ UNCHANGED <<files, exit, relCount, lastRel>>

\* save_data(sig_file, ...): fwrite, ferror, fclose.  A signature that is
\* complete on disk is released: the history records its leaf.
SaveSigWrite(p) ==
    /\ At(p, "write_sig")
    /\ \E outcome \in SaveOutcomes :
         /\ sigfile' = SavedSig(outcome, SigBlob("sig", run[p].sig,
                                                 run[p].state_file))
         /\ run' = [run EXCEPT ![p] = Goto(run[p], SaveRet(outcome))]
         /\ IF outcome = "written"
            THEN /\ relCount' = [relCount EXCEPT ![run[p].sig] = Bump(@)]
                 /\ lastRel' = [lastRel EXCEPT ![run[p].state_file] =
                                  run[p].sig]
            ELSE UNCHANGED <<relCount, lastRel>>
    /\ UNCHANGED <<files, exit>>

\* sign programs: the GetSignatureCount after both files are saved
FinalCount(p) ==
    /\ At(p, "final_count")
    /\ \E ret \in {IQR_OK, CryptoEngineError} :
         run' = [run EXCEPT ![p] = Goto(run[p], ret)]
    /\ UNCHANGED <<files, sigfile, exit, relCount, lastRel>>

\* detach: GetStateSize, calloc, ExportState(detached_state, state_raw, ...)
ExportDetached(p) ==
    /\ At(p, "export_detached")
    /\ \/ run' = [run EXCEPT ![p] =
                    Goto([run[p] EXCEPT !.state_raw =
                            EngineExportState(run[p].detached_state)],
                         IQR_OK)]
       \/ \E ret \in {CryptoEngineError, IQR_ENOMEM} :
            run' = [run EXCEPT ![p] = Goto(run[p], ret)]
    /\ UNCHANGED <<files, sigfile, exit, relCount, lastRel>>

\* save_data(detached_state_file, ...), with df the --detached-state
\* argument: fopen
SaveDetachedOpen(p, df) ==
    /\ At(p, "save_detached")
    /\ \/ /\ files' = [files EXCEPT ![df] = Truncated]
          /\ run' = [run EXCEPT ![p] =
                       Goto([run[p] EXCEPT !.detached_state_file = df,
                                           !.det_opened = TRUE], IQR_OK)]
       \/ /\ run' = [run EXCEPT ![p] = Goto(run[p], IQR_EBADVALUE)]
          /\ UNCHANGED files
    /\ UNCHANGED <<sigfile, exit, relCount, lastRel>>

\* save_data(detached_state_file, ...): fwrite, ferror, fclose
SaveDetachedWrite(p) ==
    /\ At(p, "write_detached")
    /\ \E outcome \in SaveOutcomes :
         /\ files' = [files EXCEPT ![run[p].detached_state_file] =
                        SavedState(outcome, run[p].state_raw)]
         /\ run' = [run EXCEPT ![p] = Goto(run[p], SaveRet(outcome))]
    /\ UNCHANGED <<sigfile, exit, relCount, lastRel>>

\* ------------------------------------------------------------------------
\* The verify program
\* ------------------------------------------------------------------------

\* load_data(pub_file): the public key file is not modelled further
LoadPublicKey(p) ==
    /\ At(p, "load_pub")
    /\ \E ret \in {IQR_OK, IQR_EBADVALUE} :
         run' = [run EXCEPT ![p] = Goto(run[p], ret)]
    /\ UNCHANGED <<files, sigfile, exit, relCount, lastRel>>

\* Faulty load: the signature file is opened for writing.
LoadSignature_OpensForWriting(p) ==
    /\ At(p, "load_sig")
    /\ sigfile' = SigTruncated
    /\ run' = [run EXCEPT ![p] =
                 Goto([run[p] EXCEPT !.sig_raw = SigTruncated], IQR_OK)]
    /\ UNCHANGED <<files, exit, relCount, lastRel>>

\* load_data(sig_file): fopen(fname, "rb") fails when there is no file,
\* calloc or fread can fail; otherwise the whole content is read
LoadSignature(p) ==
    /\ At(p, "load_sig")
    /\ \/ /\ sigfile # SigAbsent
          /\ run' = [run EXCEPT ![p] =
                       Goto([run[p] EXCEPT !.sig_raw = sigfile], IQR_OK)]
       \/ run' = [run EXCEPT ![p] = Goto(run[p], IQR_EBADVALUE)]
    /\ UNCHANGED <<files, sigfile, exit, relCount, lastRel>>

ImportPublicKey(p) ==
    /\ At(p, "import_pub")
    /\ \E ret \in {IQR_OK, ImportError} :
         run' = [run EXCEPT ![p] = Goto(run[p], ret)]
    /\ UNCHANGED <<files, sigfile, exit, relCount, lastRel>>

\* iqr_XMSSMTVerify(pub, digest, IQR_SHA2_512_DIGEST_SIZE, sig, sig_size),
\* the last call of the showcase function
Verify(p) ==
    /\ At(p, "verify")
    /\ run' = [run EXCEPT ![p] =
                 Goto([run[p] EXCEPT !.engine_calls = Bump(@),
                                     !.verified = run[p].sig_raw],
                      EngineVerify(run[p].sig_raw))]
    /\ UNCHANGED <<files, sigfile, exit, relCount, lastRel>>

\* ------------------------------------------------------------------------
\* The Samwise key-agreement sample
\* ------------------------------------------------------------------------

\* the words of its command lines
SamwiseTokens == {"--dump", "--variant", "AES", "junk"}

SamwiseCommandLines == UNION {[1 .. n -> SamwiseTokens] : n \in 0 .. MaxArgs}

\* paramcmp was passed argv[argc], the NULL pointer that ends argv
Undefined == "undefined"

\* main's defaults; high is the highest i for which argv[i] was read
SamwiseDefaults == [ret |-> IQR_OK, dump |-> FALSE, high |-> 0]

\* the while loop of parse_commandline from argv[i] on (argc is
\* Len(argv) + 1): there is no test of i against argc before argv[i + 1]
\* is read for --variant
RECURSIVE SamwiseParseFrom(_, _, _)
SamwiseParseFrom(argv, i, args) ==
    IF i = Len(argv) + 1 THEN args
    ELSE IF argv[i] = "--dump"
         THEN SamwiseParseFrom(argv, i + 1,
                               [args EXCEPT !.dump = TRUE, !.high = i])
    ELSE IF argv[i] = "--variant"
         THEN IF i + 1 > Len(argv)
              THEN [args EXCEPT !.ret = Undefined, !.high = i + 1]
              ELSE IF argv[i + 1] \in {"AES", "ChaCha20"}
                   THEN SamwiseParseFrom(argv, i + 2,
                                         [args EXCEPT !.high = i + 1])
                   ELSE [args EXCEPT !.ret = IQR_EBADVALUE, !.high = i + 1]
    ELSE [args EXCEPT !.ret = IQR_EBADVALUE, !.high = i]

samwise_parse_commandline(argv) == SamwiseParseFrom(argv, 1, SamwiseDefaults)

Parties == {"comms", "alice", "bob"}

\* the protocol steps, in the order of the showcase function
ProtocolSteps ==
    <<"alice_start", "bob_start", "alice_get_secret", "bob_get_secret">>

\* the process before main has run
SamwiseIdle ==
    [prog |-> "samwise", pc |-> "idle",
     argv |-> <<>>, argc |-> 1,
     high |-> 0,               \* highest index of argv that was read
     dump |-> FALSE, ret |-> IQR_OK,
     inited |-> [x \in Parties |-> FALSE],   \* init_x returned IQR_OK
     cleanups |-> [x \in Parties |-> 0],     \* calls of cleanup_x
     trace |-> <<>>,           \* history: the protocol steps that ran
     failed |-> FALSE,         \* history: a protocol step has failed
     alice_secret |-> "undeclared", bob_secret |-> "undeclared",
     compared |-> "none"]      \* what memcmp found

\* cleanup_comms(), cleanup_alice(), cleanup_bob()
CleanUp(r, x) == [r EXCEPT !.cleanups[x] = Bump(@)]

\* Faulty order: Bob starts first.
SamwiseFlow_BobFirst(pc, dump) ==
    CASE pc = "init_toolkit" -> "init_comms"
      [] pc = "init_comms" -> "init_alice"
      [] pc = "init_alice" -> "init_bob"
      [] pc = "init_bob" -> "bob_start"
      [] pc = "bob_start" -> "alice_start"
      [] pc = "alice_start" -> "alice_get_secret"
      [] pc = "alice_get_secret" -> "bob_get_secret"
      [] pc = "bob_get_secret" -> "compare"
      [] pc = "compare" -> IF dump THEN "save_alice_secret" ELSE "end"
      [] pc = "save_alice_secret" -> "save_bob_secret"
      [] OTHER -> "end"

\* main and showcase_samwise: the step after pc when the step at pc
\* returned IQR_OK
SamwiseFlow(pc, dump) ==
    CASE pc = "init_toolkit" -> "init_comms"
      [] pc = "init_comms" -> "init_alice"
      [] pc = "init_alice" -> "init_bob"
      [] pc = "init_bob" -> "alice_start"
      [] pc = "alice_start" -> "bob_start"
      [] pc = "bob_start" -> "alice_get_secret"
      [] pc = "alice_get_secret" -> "bob_get_secret"
      [] pc = "bob_get_secret" -> "compare"
      [] pc = "compare" -> IF dump THEN "save_alice_secret" ELSE "end"
      [] pc = "save_alice_secret" -> "save_bob_secret"
      [] OTHER -> "end"

\* main up to init_toolkit: the command line is parsed.  When the loop
\* passes argv[argc] to paramcmp, strnlen reads through a NULL pointer: the
\* process is killed, or the comparison gives no match and
\* parse_commandline returns IQR_EBADVALUE.
SamwiseParse(p) ==
    /\ At(p, "idle")
    /\ run[p].prog = "samwise"
    /\ exit[p] = "none"
    /\ LET args == samwise_parse_commandline(run[p].argv)
           read == [run[p] EXCEPT !.high = args.high, !.argv = <<>>]
       IN
       \/ /\ args.ret = IQR_OK
          /\ run' = [run EXCEPT ![p] =
                       [read EXCEPT !.pc = "init_toolkit",
                                    !.dump = args.dump]]
          /\ UNCHANGED exit
       \/ /\ args.ret # IQR_OK
          /\ run' = [run EXCEPT ![p] =
                       [read EXCEPT !.pc = "done", !.ret = IQR_EBADVALUE]]
          /\ exit' = [exit EXCEPT ![p] = EXIT_FAILURE]
       \/ /\ args.ret = Undefined
          /\ run' = [run EXCEPT ![p] = [read EXCEPT !.pc = "done"]]
          /\ exit' = [exit EXCEPT ![p] = "killed"]
    /\ UNCHANGED <<files, sigfile, relCount, lastRel>>

\* init_toolkit(&ctx, &rng): a failure goes to main's cleanup label
SamwiseInitToolkit(p) ==
    /\ At(p, "init_toolkit")
    /\ run[p].prog = "samwise"
    /\ \E ret \in {IQR_OK, CryptoEngineError} :
         run' = [run EXCEPT ![p] =
                   [@ EXCEPT !.ret = ret,
                             !.pc = IF ret = IQR_OK
                                    THEN SamwiseFlow(@, run[p].dump)
                                    ELSE "cleanup"]]
    /\ UNCHANGED <<files, sigfile, exit, relCount, lastRel>>

\* init_comms(): on failure the function returns at once
InitComms(p) ==
    /\ At(p, "init_comms")
    /\ \/ run' = [run EXCEPT ![p] =
                    [@ EXCEPT !.ret = IQR_OK, !.inited["comms"] = TRUE,
                              !.pc = SamwiseFlow(@, run[p].dump)]]
       \/ run' = [run EXCEPT ![p] =
                    [@ EXCEPT !.ret = CryptoEngineError, !.pc = "cleanup"]]
    /\ UNCHANGED <<files, sigfile, exit, relCount, lastRel>>

\* init_alice(ctx, variant): on failure cleanup_comms() and return
InitAlice(p) ==
    /\ At(p, "init_alice")
    /\ \/ run' = [run EXCEPT ![p] =
                    [@ EXCEPT !.ret = IQR_OK, !.inited["alice"] = TRUE,
                              !.pc = SamwiseFlow(@, run[p].dump)]]
       \/ run' = [run EXCEPT ![p] =
                    [CleanUp(run[p], "comms") EXCEPT
                        !.ret = CryptoEngineError, !.pc = "cleanup"]]
    /\ UNCHANGED <<files, sigfile, exit, relCount, lastRel>>

\* Faulty failure path: init_bob's failure returns with no cleanup.
InitBob_NoCleanup(p) ==
    /\ At(p, "init_bob")
    /\ \/ run' = [run EXCEPT ![p] =
                    [@ EXCEPT !.ret = IQR_OK, !.inited["bob"] = TRUE,
                              !.alice_secret = "zero", !.bob_secret = "zero",
                              !.pc = SamwiseFlow(@, run[p].dump)]]
       \/ run' = [run EXCEPT ![p] =
                    [@ EXCEPT !.ret = CryptoEngineError, !.pc = "cleanup"]]
    /\ UNCHANGED <<files, sigfile, exit, relCount, lastRel>>

\* init_bob(ctx, variant): on failure cleanup_alice(), cleanup_comms() and
\* return; on success the two secret buffers are declared, filled with 0
InitBob(p) ==
    /\ At(p, "init_bob")
    /\ \/ run' = [run EXCEPT ![p] =
                    [@ EXCEPT !.ret = IQR_OK, !.inited["bob"] = TRUE,
                              !.alice_secret = "zero", !.bob_secret = "zero",
                              !.pc = SamwiseFlow(@, run[p].dump)]]
       \/ run' = [run EXCEPT ![p] =
                    [CleanUp(CleanUp(run[p], "alice"), "comms") EXCEPT
                        !.ret = CryptoEngineError, !.pc = "cleanup"]]
    /\ UNCHANGED <<files, sigfile, exit, relCount, lastRel>>

\* a protocol step returned ret: on failure goto end
Protocol(r, ret, dump) ==
    [r EXCEPT !.ret = ret,
              !.trace = Append(@, r.pc),
              !.failed = (ret # IQR_OK),
              !.pc = IF ret = IQR_OK THEN SamwiseFlow(r.pc, dump) ELSE "end"]

\* alice_start(rng, dump)
AliceStart(p) ==
    /\ At(p, "alice_start")
    /\ \E ret \in {IQR_OK, CryptoEngineError} :
         run' = [run EXCEPT ![p] = Protocol(run[p], ret, run[p].dump)]
    /\ UNCHANGED <<files, sigfile, exit, relCount, lastRel>>

\* bob_start(rng, dump)
BobStart(p) ==
    /\ At(p, "bob_start")
    /\ \E ret \in {IQR_OK, CryptoEngineError} :
         run' = [run EXCEPT ![p] = Protocol(run[p], ret, run[p].dump)]
    /\ UNCHANGED <<files, sigfile, exit, relCount, lastRel>>

\* the secrets a party can derive
Secrets == {"k1", "k2"}

\* alice_get_secret(alice_secret, sizeof(alice_secret))
AliceGetSecret(p) ==
    /\ At(p, "alice_get_secret")
    /\ \/ \E k \in Secrets :
            run' = [run EXCEPT ![p] =
                      Protocol([run[p] EXCEPT !.alice_secret = k],
                               IQR_OK, run[p].dump)]
       \/ run' = [run EXCEPT ![p] =
                    Protocol(run[p], CryptoEngineError, run[p].dump)]
    /\ UNCHANGED <<files, sigfile, exit, relCount, lastRel>>

\* bob_get_secret(bob_secret, sizeof(bob_secret))
BobGetSecret(p) ==
    /\ At(p, "bob_get_secret")
    /\ \/ \E k \in Secrets :
            run' = [run EXCEPT ![p] =
                      Protocol([run[p] EXCEPT !.bob_secret = k],
                               IQR_OK, run[p].dump)]
       \/ run' = [run EXCEPT ![p] =
                    Protocol(run[p], CryptoEngineError, run[p].dump)]
    /\ UNCHANGED <<files, sigfile, exit, relCount, lastRel>>

\* memcmp(alice_secret, bob_secret, ...): one of two messages is printed,
\* ret is left as it is
CompareSecrets(p) ==
    /\ At(p, "compare")
    /\ run' = [run EXCEPT ![p] =
                 [@ EXCEPT !.compared =
                               IF run[p].alice_secret = run[p].bob_secret
                               THEN "match" ELSE "differ",
                           !.pc = SamwiseFlow(@, run[p].dump)]]
    /\ UNCHANGED <<files, sigfile, exit, relCount, lastRel>>

\* if (dump): save_data(ALICE_SECRET_FNAME, ...), on failure goto end
SaveAliceSecret(p) ==
    /\ At(p, "save_alice_secret")
    /\ \E ret \in {IQR_OK, IQR_EBADVALUE} :
         run' = [run EXCEPT ![p] =
                   [@ EXCEPT !.ret = ret,
                             !.pc = IF ret = IQR_OK
                                    THEN SamwiseFlow(@, run[p].dump)
                                    ELSE "end"]]
    /\ UNCHANGED <<files, sigfile, exit, relCount, lastRel>>

\* save_data(BOB_SECRET_FNAME, ...), the last call before the end label
SaveBobSecret(p) ==
    /\ At(p, "save_bob_secret")
    /\ \E ret \in {IQR_OK, IQR_EBADVALUE} :
         run' = [run EXCEPT ![p] = [@ EXCEPT !.ret = ret, !.pc = "end"]]
    /\ UNCHANGED <<files, sigfile, exit, relCount, lastRel>>

\* the end label of showcase_samwise: both secrets are zeroed, then
\* cleanup_alice(), cleanup_bob(), cleanup_comms(), return ret
SamwiseEnd(p) ==
    /\ At(p, "end")
    /\ run[p].prog = "samwise"
    /\ run' = [run EXCEPT ![p] =
                 [CleanUp(CleanUp(CleanUp(run[p], "alice"), "bob"), "comms")
                    EXCEPT !.alice_secret = "wiped", !.bob_secret = "wiped",
                           !.pc = "cleanup"]]
    /\ UNCHANGED <<files, sigfile, exit, relCount, lastRel>>

\* main's cleanup label and return
SamwiseExit(p) ==
    /\ At(p, "cleanup")
    /\ run[p].prog = "samwise"
    /\ run' = [run EXCEPT ![p] = [@ EXCEPT !.pc = "done"]]
    /\ exit' = [exit EXCEPT ![p] =
                  IF run[p].ret = IQR_OK THEN EXIT_SUCCESS ELSE EXIT_FAILURE]
    /\ UNCHANGED <<files, sigfile, relCount, lastRel>>

\* ------------------------------------------------------------------------
\* Alice, the initiator of the NewHopeDH sample
\* ------------------------------------------------------------------------

\* the longest sequence of calls that is followed
MaxCalls == 4

IQR_ENULLPTR == "IQR_ENULLPTR"

\* Alice's file-scope variables, params and initiator_private_key, before
\* the first call
AliceIdle ==
    [prog |-> "newhopedh", pc |-> "idle",
     params |-> "null",                  \* params is NULL or set
     initiator_private_key |-> "null",   \* the handle is NULL or a key
     live |-> 0,          \* keys that were created and not destroyed
     lost |-> 0,          \* live keys that no handle refers to
     calls |-> 0,         \* history: number of calls so far
     before |-> 0,        \* history: live keys when the last call began
     last |-> "none",     \* history: the last function that was called
     ret |-> IQR_OK]      \* its return value

\* a call of function f by process p has returned ret and left record r
Returned(p, r, f, ret) ==
    [r EXCEPT !.calls = @ + 1, !.last = f, !.ret = ret,
              !.before = run[p].live]

\* iqr_NewHopeDHCreateInitiatorPrivateKey(params, rng, &initiator_private_key):
\* the records the call can leave.  Without params the call fails.  A
\* handle that still refers to a key is either replaced by the new key,
\* the old one staying live with nothing that refers to it, or the call
\* is rejected; a failing call leaves the handle as it is.
CreateInitiatorPrivateKey(r) ==
    IF r.params = "null" THEN {[r EXCEPT !.ret = IQR_ENULLPTR]}
    ELSE {[r EXCEPT !.ret = IQR_ENOMEM]} \cup
         IF r.initiator_private_key = "null"
         THEN {[r EXCEPT !.ret = IQR_OK, !.initiator_private_key = "key",
                         !.live = @ + 1]}
         ELSE {[r EXCEPT !.ret = IQR_OK, !.live = @ + 1, !.lost = @ + 1],
               [r EXCEPT !.ret = InvalidParameterError]}

\* iqr_NewHopeDHDestroyInitiatorPrivateKey(&initiator_private_key): the key
\* the handle refers to is destroyed and the handle set to NULL; the
\* return value is not looked at
DestroyInitiatorPrivateKey(r) ==
    IF r.initiator_private_key = "null" THEN r
    ELSE [r EXCEPT !.initiator_private_key = "null", !.live = @ - 1]

\* init_alice(ctx)
init_alice(p) ==
    /\ run[p].prog = "newhopedh"
    /\ run[p].calls < MaxCalls
    /\ \/ run' = [run EXCEPT ![p] =
                    Returned(p, run[p], "init_alice", IQR_ENULLPTR)]
       \/ run' = [run EXCEPT ![p] =
                    Returned(p, [run[p] EXCEPT !.params = "set"],
                             "init_alice", IQR_OK)]
       \/ run' = [run EXCEPT ![p] =
                    Returned(p, run[p], "init_alice", IQR_ENOMEM)]
    /\ UNCHANGED <<files, sigfile, exit, relCount, lastRel>>

\* alice_start(rng, dump): the two early returns leave everything as it
\* is; after the key was created, every failure (of the create call, of
\* GetInitiatorPublicKey, save_data or send_to_bob) goes through the end
\* label, which destroys the key the handle refers to
alice_start(p) ==
    /\ run[p].prog = "newhopedh"
    /\ run[p].calls < MaxCalls
    /\ \/ \E ret \in {IQR_ENULLPTR, IQR_ENOMEM} :
            run' = [run EXCEPT ![p] = Returned(p, run[p], "alice_start", ret)]
       \/ \E r \in CreateInitiatorPrivateKey(run[p]) :
            \/ /\ r.ret # IQR_OK
               /\ run' = [run EXCEPT ![p] =
                            Returned(p, DestroyInitiatorPrivateKey(r),
                                     "alice_start", r.ret)]
            \/ /\ r.ret = IQR_OK
               /\ \/ run' = [run EXCEPT ![p] =
                               Returned(p, r, "alice_start", IQR_OK)]
                  \/ \E ret \in {IQR_EBADVALUE, CryptoEngineError} :
                       run' = [run EXCEPT ![p] =
                                 Returned(p, DestroyInitiatorPrivateKey(r),
                                          "alice_start", ret)]
    /\ UNCHANGED <<files, sigfile, exit, relCount, lastRel>>

\* alice_get_secret(secret, secret_size): the argument check, calloc,
\* receive_from_bob and GetInitiatorSecret all lead to the end label,
\* which destroys the key
alice_get_secret(p) ==
    /\ run[p].prog = "newhopedh"
    /\ run[p].calls < MaxCalls
    /\ \E ret \in (IF run[p].initiator_private_key = "null"
                    THEN {} ELSE {IQR_OK})
                   \cup {IQR_ENULLPTR, IQR_ENOMEM, CryptoEngineError} :
         run' = [run EXCEPT ![p] =
                   Returned(p, DestroyInitiatorPrivateKey(run[p]),
                            "alice_get_secret", ret)]
    /\ UNCHANGED <<files, sigfile, exit, relCount, lastRel>>

\* cleanup_alice(): iqr_NewHopeDHDestroyParams(&params); the key handle is
\* not touched
cleanup_alice(p) ==
    /\ run[p].prog = "newhopedh"
    /\ run[p].calls < MaxCalls
    /\ run' = [run EXCEPT ![p] =
                 Returned(p, [run[p] EXCEPT !.params = "null"], "cleanup_alice",
                          IF run[p].params = "null"
                          THEN IQR_ENULLPTR ELSE IQR_OK)]
    /\ UNCHANGED <<files, sigfile, exit, relCount, lastRel>>

\* ------------------------------------------------------------------------
\* Leaving
\* ------------------------------------------------------------------------

\* Faulty return: the showcase function returns IQR_OK from its end label.
ShowcaseEnd_ReturnsOk(p) ==
    /\ At(p, "end")
    /\ run' = [run EXCEPT ![p] = [@ EXCEPT !.pc = "cleanup", !.ret = IQR_OK]]
    /\ UNCHANGED <<files, sigfile, exit, relCount, lastRel>>

\* the end label of the showcase function: buffers and engine objects are
\* released, ret is returned to main
ShowcaseEnd(p) ==
    /\ At(p, "end")
    /\ run' = [run EXCEPT ![p] = [@ EXCEPT !.pc = "cleanup"]]
    /\ UNCHANGED <<files, sigfile, exit, relCount, lastRel>>

\* main's cleanup label and return
MainExit(p) ==
    /\ At(p, "cleanup")
    /\ exit' = [exit EXCEPT ![p] =
                  IF run[p].ret = IQR_OK THEN EXIT_SUCCESS ELSE EXIT_FAILURE]
    /\ run' = [run EXCEPT ![p] = Idle]
    /\ UNCHANGED <<files, sigfile, relCount, lastRel>>

\* The process is killed.  Inside save_data, between fopen and fclose, the
\* file stays cut short (it holds what was written so far).
Crash(p) ==
    /\ ~At(p, "idle")
    /\ run' = [run EXCEPT ![p] = Idle]
    /\ exit' = [exit EXCEPT ![p] = "killed"]
    /\ UNCHANGED <<files, sigfile, relCount, lastRel>>

\* ------------------------------------------------------------------------
\* Specifications
\* ------------------------------------------------------------------------

\* the steps that read no argument
Local(p) ==
    \/ InitToolkit(p)
    \/ CreateParams(p)
    \/ LoadPrivateKey(p)
    \/ ImportPrivateKey(p)
    \/ ImportState(p)
    \/ GetSignatureCount(p)
    \/ AllocSignature(p)
    \/ Sign(p)
    \/ DetachCounts(p)
    \/ ExportState(p)
    \/ SaveStateOpen(p)
    \/ SaveStateWrite(p)
    \/ SaveSigOpen(p)
    \/ SaveSigWrite(p)
    \/ FinalCount(p)
    \/ ExportDetached(p)
    \/ SaveDetachedWrite(p)
    \/ ShowcaseEnd(p)
    \/ MainExit(p)
    \/ Crash(p)

\* The runs are executed one after another (the caller serialises them, as
\* section 5 of the specification requires): one process, run after run,
\* with every program and every argument.
Next ==
    \/ ParseFail(1)
    \/ \E prog \in Programs : Start(1, prog)
    \/ \E sf \in StateFiles : LoadState(1, sf)
    \/ \E n \in 0 .. MaxNumSigs : DetachState(1, n)
    \/ \E df \in DetachTargets(run[1].state_file) : SaveDetachedOpen(1, df)
    \/ Local(1)

Spec == Init /\ [][Next]_vars

\* The programs take no lock: two processes, started at any time on the
\* default state file, each signing or detaching one signature.
NextConc ==
    \E p \in Procs :
        \/ \E prog \in ConcPrograms : Start(p, prog)
        \/ LoadState(p, "priv.state")
        \/ DetachState(p, 1)
        \/ SaveDetachedOpen(p, "detached.state")
        \/ Local(p)

SpecConc == Init /\ [][NextConc]_vars

\* the steps of a sign run that read no argument
SignLocal(p) ==
    \/ InitToolkit(p)
    \/ CreateParams(p)
    \/ LoadPrivateKey(p)
    \/ ImportPrivateKey(p)
    \/ ImportState(p)
    \/ GetSignatureCount(p)
    \/ AllocSignature(p)
    \/ Sign(p)
    \/ ExportState(p)
    \/ SaveStateOpen(p)
    \/ SaveStateWrite(p)
    \/ SaveSigOpen(p)
    \/ SaveSigWrite(p)
    \/ FinalCount(p)
    \/ ShowcaseEnd(p)
    \/ MainExit(p)
    \/ Crash(p)

\* the --state argument of the signer p after a detachment: process 1 signs
\* with the parent's state file, process 2 with the detached state file
SplitFile(p) == IF p = 1 THEN "priv.state" ELSE "detached.state"

\* After c sign runs and a completed detach run of n signatures: the two
\* state files hold what the engine's detach_state made of the state with
\* cursor c, the leaves below c are released.
InitSplit ==
    \E c \in 0 .. (TotalLeaves - 1), n \in 1 .. MaxNumSigs :
        LET got == EngineDetachState(StateBlob(c, TotalLeaves, TotalLeaves), n)
        IN
        /\ got.ret = IQR_OK
        /\ files = [f \in StateFiles |->
                      IF f = "priv.state" THEN EngineExportState(got.state)
                      ELSE IF f = "detached.state"
                           THEN EngineExportState(got.detached)
                           ELSE Absent]
        /\ sigfile = IF c = 0 THEN SigAbsent
                      ELSE SigBlob("sig", c - 1, "priv.state")
        /\ run = [p \in Procs |-> Idle]
        /\ exit = [p \in Procs |-> "none"]
        /\ relCount = [l \in Leaves |-> IF l < c THEN 1 ELSE 0]
        /\ lastRel = [f \in StateFiles |->
                        IF f = "priv.state" /\ c > 0 THEN c - 1 ELSE NoLeaf]

\* The two signers run at the same time, each sign run after sign run on
\* its own state file, with no coordination between them.
NextSplit ==
    \E p \in Procs :
        \/ \E prog \in SignPrograms : Start(p, prog)
        \/ LoadState(p, SplitFile(p))
        \/ SignLocal(p)

SpecSplit == InitSplit /\ [][NextSplit]_vars

\* the step met no failure: every call returned IQR_OK, or the depleted
\* error on a state with no signature left, and every write is complete
NoFailure ==
    /\ run'[1].ret \in {IQR_OK, IQR_ESTATEDEPLETED}
    /\ run[1].pc = "write_state" => IsState(files'["priv.state"])
    /\ run[1].pc = "write_sig" => sigfile'.kind = "sig"

\* after the generation of a key of FreshLeaves leaves
InitFresh ==
    /\ files = [f \in StateFiles |->
                  IF f = "priv.state" THEN StateBlob(0, FreshLeaves, FreshLeaves)
                  ELSE Absent]
    /\ sigfile = SigAbsent
    /\ run = [p \in Procs |-> Idle]
    /\ exit = [p \in Procs |-> "none"]
    /\ relCount = [l \in 0 .. (FreshLeaves - 1) |-> 0]
    /\ lastRel = [f \in StateFiles |-> NoLeaf]

\* A fresh key, and sign run after sign run on it with no detachment, no
\* kill of the process and no failure.
NextFresh ==
    \/ (\E prog \in SignPrograms : Start(1, prog)) /\ NoFailure
    \/ LoadState(1, "priv.state") /\ NoFailure
    \/ InitToolkit(1) /\ NoFailure
    \/ CreateParams(1) /\ NoFailure
    \/ LoadPrivateKey(1) /\ NoFailure
    \/ ImportPrivateKey(1) /\ NoFailure
    \/ ImportState(1) /\ NoFailure
    \/ GetSignatureCount(1) /\ NoFailure
    \/ AllocSignature(1) /\ NoFailure
    \/ Sign(1) /\ NoFailure
    \/ ExportState(1) /\ NoFailure
    \/ SaveStateOpen(1) /\ NoFailure
    \/ SaveStateWrite(1) /\ NoFailure
    \/ SaveSigOpen(1) /\ NoFailure
    \/ SaveSigWrite(1) /\ NoFailure
    \/ FinalCount(1) /\ NoFailure
    \/ ShowcaseEnd(1) /\ NoFailure
    \/ MainExit(1) /\ NoFailure

\* the caller goes on starting runs, and a started run goes on to its exit
SpecFresh == InitFresh /\ [][NextFresh]_vars /\ WF_vars(NextFresh)

\* the command lines of up to MaxArgs words
CommandLines == UNION {[1 .. n -> Tokens] : n \in 0 .. MaxArgs}

\* One invocation of a program with a command line: any name on the
\* command line can be a file; the state file of the fresh key exists.
InitParse ==
    \E prog \in Programs, argv \in CommandLines :
        /\ files = [f \in StateFiles \cup Tokens |->
                      IF f = "priv.state"
                      THEN StateBlob(0, TotalLeaves, TotalLeaves)
                      ELSE Absent]
        /\ sigfile = SigAbsent
        /\ run = [p \in Procs |->
                    IF p = 1 THEN [Idle EXCEPT !.prog = prog, !.argv = argv]
                    ELSE Idle]
        /\ exit = [p \in Procs |-> "none"]
        /\ relCount = [l \in Leaves |-> 0]
        /\ lastRel = [f \in StateFiles \cup Tokens |-> NoLeaf]

\* the run reads each argument as main passed it
NextParse ==
    \/ ParseCommandline(1)
    \/ LoadState(1, run[1].state_file)
    \/ DetachState(1, run[1].num_signatures)
    \/ SaveDetachedOpen(1, run[1].detached_state_file)
    \/ Local(1)

SpecParse == InitParse /\ [][NextParse]_vars

\* the steps of a verify run that are its own
VerifyLocal(p) ==
    \/ LoadPublicKey(p)
    \/ LoadSignature(p)
    \/ ImportPublicKey(p)
    \/ Verify(p)

\* Process 1 runs the signer or the verifier, run after run; process 2 runs
\* the verifier, at any time.
NextVerify ==
    \/ \E prog \in {"xmss_sign", "xmssmt_verify"} : Start(1, prog)
    \/ Start(2, "xmssmt_verify")
    \/ LoadState(1, "priv.state")
    \/ SignLocal(1)
    \/ \E p \in Procs : VerifyLocal(p)
    \/ InitToolkit(2)
    \/ CreateParams(2)
    \/ ShowcaseEnd(2)
    \/ MainExit(2)

SpecVerify == Init /\ [][NextVerify]_vars

\* one invocation of the Samwise sample with a command line
InitSamwise ==
    \E argv \in SamwiseCommandLines :
        /\ files = [f \in StateFiles |-> Absent]
        /\ sigfile = SigAbsent
        /\ run = [p \in Procs |->
                    [SamwiseIdle EXCEPT !.argv = argv,
                                        !.argc = Len(argv) + 1]]
        /\ exit = [p \in Procs |-> "none"]
        /\ relCount = [l \in Leaves |-> 0]
        /\ lastRel = [f \in StateFiles |-> NoLeaf]

NextSamwise ==
    \/ SamwiseParse(1)
    \/ SamwiseInitToolkit(1)
    \/ InitComms(1)
    \/ InitAlice(1)
    \/ InitBob(1)
    \/ AliceStart(1)
    \/ BobStart(1)
    \/ AliceGetSecret(1)
    \/ BobGetSecret(1)
    \/ CompareSecrets(1)
    \/ SaveAliceSecret(1)
    \/ SaveBobSecret(1)
    \/ SamwiseEnd(1)
    \/ SamwiseExit(1)

SpecSamwise == InitSamwise /\ [][NextSamwise]_vars

\* any sequence of up to MaxCalls calls of Alice's four functions
InitAlice_Calls ==
    /\ files = [f \in StateFiles |-> Absent]
    /\ sigfile = SigAbsent
    /\ run = [p \in Procs |-> AliceIdle]
    /\ exit = [p \in Procs |-> "none"]
    /\ relCount = [l \in Leaves |-> 0]
    /\ lastRel = [f \in StateFiles |-> NoLeaf]

NextAlice ==
    \/ init_alice(1)
    \/ alice_start(1)
    \/ alice_get_secret(1)
    \/ cleanup_alice(1)

SpecAlice == InitAlice_Calls /\ [][NextAlice]_vars

\* ------------------------------------------------------------------------
\* Properties
\* ------------------------------------------------------------------------

\* the leaves a state file holds
Range(f) ==
    IF IsState(files[f]) THEN files[f].next .. (files[f].end - 1) ELSE {}

\* the run imported this blob and it has no signature left
Depleted(b) == IsState(b) /\ Remaining(b) = 0

SignRun(p) == run[p].prog \in SignPrograms

DetachRun(p) == run[p].prog = "xmss_detach"

C3_NoLeafReleasedTwice == \A l \in Leaves : relCount[l] <= 1

\* C4: a run that reads the state file never reads a blob that was written
\* in part: it reads a complete blob.
C4_ReaderSeesCompleteBlob ==
    \A p \in Procs : run[p].loaded.kind \in {"null", "state"}

C6_FailedWriteKeepsStateFile ==
    [][\A p \in Procs :
         (/\ SignRun(p)
          /\ run[p].state_saved = "none"
          /\ run'[p].state_saved = IQR_EBADVALUE) =>
            files'[run[p].state_file] = run[p].loaded]_vars

\* C7: a run that imported a depleted state neither changes the state file
\* nor opens the signature file or a detached state file.
C7_DepletedIsTerminal ==
    \A p \in Procs :
        Depleted(run[p].loaded) =>
            /\ files[run[p].state_file] = run[p].loaded
            /\ ~run[p].sig_opened
            /\ ~run[p].det_opened

\* C8: a sign run calls the engine's sign operation only after it queried
\* the capacity of the imported state, and never when the remaining count
\* is 0.
C8_CapacityBeforeSign ==
    \A p \in Procs :
        (SignRun(p) /\ run[p].engine_calls > 0) =>
            /\ run[p].queried
            /\ ~Depleted(run[p].loaded)

Detaching(p) ==
    /\ DetachRun(p)
    /\ IsState(run[p].detached_state)
    /\ run[p].num_signatures >= 1

\* the state file of run p holds the parent's cursor advanced by n
ParentAdvanced(p) ==
    /\ IsState(files'[run[p].state_file])
    /\ files'[run[p].state_file].next =
          run[p].loaded.next + run[p].num_signatures

\* the file run p opened as detached state file holds the detached state
DetachedOnDisk(p) ==
    /\ run[p].det_opened
    /\ files'[run[p].detached_state_file] = run[p].detached_state

\* C11: when a detach run that detached n >= 1 leaves stops (it reaches its
\* end label or is killed), either the parent's advance by n and the
\* detached state are both on disk, or neither is.
C11_DetachAtomic ==
    [][\A p \in Procs :
         (Detaching(p) /\ run'[p].pc \in {"end", "idle"}) =>
            (ParentAdvanced(p) <=> DetachedOnDisk(p))]_vars

C13_ZeroDetachFails ==
    \A p \in Procs :
        (/\ DetachRun(p)
         /\ run[p].engine_calls > 0
         /\ run[p].num_signatures = 0) =>
            /\ run[p].ret # IQR_OK
            /\ run[p].state_saved = "none"
            /\ ~run[p].det_opened

\* C14: when a detach run of n >= 1 leaves on a state with cursor c returns
\* IQR_OK, the detached state file holds the state of remaining count n
\* whose first leaf is c, and the state file holds the parent's state with
\* cursor c + n (remaining count lowered by n), from which the parent's
\* next sign run signs.
C14_DetachResult ==
    [][\A p \in Procs :
         (/\ DetachRun(p)
          /\ run[p].num_signatures >= 1
          /\ run[p].pc = "write_detached"
          /\ run'[p].pc = "end"
          /\ run'[p].ret = IQR_OK) =>
            /\ files'[run[p].detached_state_file] =
                  StateBlob(run[p].loaded.next,
                            run[p].loaded.next + run[p].num_signatures,
                            run[p].num_signatures)
            /\ files'[run[p].state_file] =
                  StateBlob(run[p].loaded.next + run[p].num_signatures,
                            run[p].loaded.end, run[p].loaded.max)]_vars

\* C17: a step that leaves a cursor in the state file of a run leaves one
\* that is not below the cursor the run loaded from that file, nor below
\* the cursor the run has stored in it.
C17_CursorNeverDecreases ==
    [][\A p \in Procs :
         (/\ run[p].pc \in {"write_state", "write_detached"}
          /\ IsState(files'[run[p].state_file])) =>
            /\ files'[run[p].state_file].next >= run[p].loaded.next
            /\ files'[run[p].state_file].next >= run[p].stored]_vars

\* C15: with one signer on the parent's state file and one on the detached
\* state file, running at the same time, no leaf is released twice, and a
\* step of one signer leaves the other signer's state file as it is.
C15_SplitSignersIndependent ==
    /\ [](\A l \in Leaves : relCount[l] <= 1)
    /\ [][\A p \in Procs :
            run'[p] # run[p] =>
               \A f \in StateFiles \ {SplitFile(p)} : files'[f] = files[f]]_vars

\* both signers have just released a signature, in runs that overlap
C15_Witness ==
    /\ run[1].pc = "final_count"
    /\ run[2].pc = "final_count"
    /\ lastRel["priv.state"] = run[1].sig
    /\ lastRel["detached.state"] = run[2].sig
    /\ run[1].sig # run[2].sig

\* C16: when a sign run that loaded the state file goes to its end label
\* with a non-OK value, the state file holds the blob the run loaded.
C16_FailedSignNoEffect ==
    [][\A p \in Procs :
         (/\ SignRun(p)
          /\ run[p].loaded # Null
          /\ run[p].pc \notin {"end", "cleanup"}
          /\ run'[p].pc = "end"
          /\ run'[p].ret # IQR_OK) =>
            files'[run[p].state_file] = run[p].loaded]_vars

\* the leaves whose signature was released
Released == {l \in DOMAIN relCount : relCount[l] > 0}

\* C18: on a fresh key with no detachment and no failure, every sign run
\* that returns IQR_OK has released the signature of the next leaf, each
\* leaf once and in order; a run fails only once all FreshLeaves leaves are
\* released, with the depleted error, and that run does come.
C18_FreshKeySignsAllLeaves ==
    /\ [](/\ \A l \in DOMAIN relCount : relCount[l] <= 1
          /\ Released = 0 .. lastRel["priv.state"]
          /\ run[1].ret # IQR_OK =>
                /\ run[1].ret = IQR_ESTATEDEPLETED
                /\ Released = 0 .. (FreshLeaves - 1)
          /\ exit[1] = EXIT_FAILURE => Released = 0 .. (FreshLeaves - 1))
    /\ [][(run[1].pc = "final_count" /\ run'[1].pc = "end") =>
             /\ run'[1].ret = IQR_OK
             /\ lastRel["priv.state"] = run[1].sig
             /\ run[1].sig = run[1].loaded.next]_vars
    /\ <>(exit[1] = EXIT_FAILURE /\ Released = 0 .. (FreshLeaves - 1))

\* every leaf is released and the run after that has failed
C18_Witness ==
    /\ Released = 0 .. (FreshLeaves - 1)
    /\ lastRel["priv.state"] = FreshLeaves - 1
    /\ exit[1] = EXIT_FAILURE
    /\ Depleted(files["priv.state"])

\* C19: when a sign run returns IQR_OK, the state file holds the state the
\* run loaded with its cursor advanced by 1 (remaining count lowered by 1)
\* and the same maximum count; and a sign call on a state with remaining
\* count 0 leaves the in-memory state as it was.
C19_SignLowersRemainingByOne ==
    [][\A p \in Procs :
         /\ (/\ SignRun(p)
             /\ run[p].pc = "final_count"
             /\ run'[p].pc = "end"
             /\ run'[p].ret = IQR_OK) =>
               files'[run[p].state_file] =
                  StateBlob(run[p].loaded.next + 1,
                            run[p].loaded.end, run[p].loaded.max)
         /\ (/\ SignRun(p)
             /\ run[p].pc = "sign"
             /\ Remaining(run[p].state) = 0
             /\ run'[p].pc = "sign") =>
               run'[p].state = run[p].state]_vars

\* C20: a run calls the engine's sign or detach operation at most once, on
\* the state it imported from the state file; after save_data(state_file)
\* returned an error the run is at its end, with its in-memory state
\* destroyed.
C20_NoRetryInRun ==
    \A p \in Procs :
        /\ run[p].engine_calls <= 1
        /\ run[p].pc \in {"sign", "detach"} =>
              /\ run[p].engine_calls = 0
              /\ run[p].state = run[p].loaded
        /\ run[p].state_saved = IQR_EBADVALUE =>
              /\ run[p].pc \in {"end", "cleanup"}
              /\ run[p].state = Null
              /\ run[p].state_raw = Null

\* a run that called the engine once is returning to main after
\* save_data(state_file) returned an error
C20_Witness ==
    \E p \in Procs :
        /\ run[p].engine_calls = 1
        /\ run[p].state_saved = IQR_EBADVALUE
        /\ run[p].pc = "cleanup"

\* C21: a run whose state file does not hold a complete state blob (a file
\* size that differs from the state size, the empty file included) fails at
\* the import of the state: it goes to its end label with a non-OK value,
\* has opened no file for writing, leaves every file as it is, and the
\* process exits with EXIT_FAILURE.
C21_BadStateFileFailsImport ==
    /\ [][\A p \in Procs :
            (/\ run[p].pc = "import_state"
             /\ ~IsState(run[p].state_raw)
             /\ run'[p] # run[p]
             /\ run'[p].pc # "idle") =>
                /\ run'[p].pc = "end"
                /\ run'[p].ret = ImportError
                /\ run'[p].state_saved = "none"
                /\ ~run'[p].sig_opened
                /\ ~run'[p].det_opened
                /\ files' = files
                /\ sigfile' = sigfile]_vars
    /\ [](\A p \in Procs :
            run[p].ret = ImportError =>
                /\ run[p].pc \in {"end", "cleanup"}
                /\ run[p].state_saved = "none"
                /\ ~run[p].sig_opened
                /\ ~run[p].det_opened)
    /\ [][\A p \in Procs :
            (run[p].ret = ImportError /\ run'[p] # run[p]) =>
                /\ files' = files
                /\ sigfile' = sigfile
                /\ exit'[p] \in {exit[p], EXIT_FAILURE, "killed"}
                /\ (run[p].pc = "cleanup" /\ exit'[p] # "killed") =>
                      exit'[p] = EXIT_FAILURE]_vars

\* a detach run on a state file that is cut short has failed at an import
\* and is at its end label; no detached state was written
C21_Witness ==
    /\ run[1].prog = "xmss_detach"
    /\ run[1].pc = "end"
    /\ run[1].ret = ImportError
    /\ files["priv.state"] = Truncated
    /\ files["detached.state"] = Absent

LastStep(p) == IF SignRun(p) THEN "final_count" ELSE "write_detached"

\* C23: a step of a sign or detach run that returns an error ends the run
\* with that error: the run is at its end label with the value the step
\* returned, the showcase function returns that value to main unchanged,
\* and main exits with EXIT_FAILURE; main exits with EXIT_SUCCESS only
\* when the run went through its last step with every step returning
\* IQR_OK.
C23_ErrorsPropagate ==
    /\ [](\A p \in Procs :
            /\ run[p].ret # IQR_OK => run[p].pc \in {"end", "cleanup"}
            /\ (run[p].pc \in {"end", "cleanup"} /\ run[p].ret = IQR_OK) =>
                  /\ run[p].engine_calls = 1
                  /\ run[p].state_saved = IQR_OK
                  /\ run[p].sig_opened \/ run[p].det_opened)
    /\ [][\A p \in Procs :
            /\ (/\ run[p].pc \notin {"idle", "end", "cleanup"}
                /\ run'[p].pc \in {"end", "cleanup"}) =>
                   /\ run[p].pc # LastStep(p) => run'[p].ret # IQR_OK
                   /\ (/\ run[p].pc = "import_state"
                       /\ ~IsState(run[p].state_raw)) =>
                          run'[p].ret = ImportError
                   /\ (/\ run[p].pc \in {"sign", "get_count"}
                       /\ Remaining(run[p].state) = 0
                       /\ run'[p].ret # CryptoEngineError) =>
                          run'[p].ret = IQR_ESTATEDEPLETED
                   /\ (/\ run[p].pc = "detach"
                       /\ run'[p].num_signatures > Remaining(run[p].state)) =>
                          run'[p].ret = InsufficientCapacityError
                   /\ run'[p].state_saved = IQR_EBADVALUE =>
                          run'[p].ret = IQR_EBADVALUE
            /\ (run[p].pc = "end" /\ run'[p].pc = "cleanup") =>
                   run'[p].ret = run[p].ret
            /\ (/\ run[p].pc = "cleanup"
                /\ run'[p].pc = "idle"
                /\ exit'[p] # "killed") =>
                   exit'[p] = IF run[p].ret = IQR_OK THEN EXIT_SUCCESS
                              ELSE EXIT_FAILURE]_vars

\* save_data(state_file) failed and the showcase function has returned
\* its value to main
C23_Witness ==
    /\ run[1].pc = "cleanup"
    /\ run[1].state_saved = IQR_EBADVALUE
    /\ run[1].ret = IQR_EBADVALUE
    /\ run[1].engine_calls = 1

\* the options of a program that take a value
KnownOptions(prog) ==
    IF prog = "xmss_detach"
    THEN {"--state", "--detached-state", "--height", "--num-sigs"}
    ELSE {"--state", "--height"}

\* every word up to the i-th in an odd place is an option of the program:
\* the words in the even places are their values
OptionsUpTo(prog, a, i) ==
    \A j \in 1 .. i : j % 2 = 1 => a[j] \in KnownOptions(prog)

\* the last word is an option, with no value after it
OptionWithoutValue(prog, a) ==
    /\ Len(a) % 2 = 1
    /\ OptionsUpTo(prog, a, Len(a))

\* an option is followed by a value it does not take
InvalidValue(prog, a) ==
    \E i \in 1 .. (Len(a) - 1) :
        /\ i % 2 = 1
        /\ OptionsUpTo(prog, a, i)
        /\ \/ a[i] = "--height" /\ a[i + 1] \notin Heights(prog)
           \/ /\ a[i] = "--num-sigs"
              /\ prog = "xmss_detach"
              /\ a[i + 1] \notin {"1", "10", "4294967297"}

\* C24: a command line that ends in an option without its value, or gives
\* --height or --num-sigs a value it does not take, or that
\* parse_commandline rejects for any reason, makes main exit with
\* EXIT_FAILURE in its first step: the toolkit is not initialised and no
\* file is read or written; and a run that reaches main's return with
\* IQR_OK exits with EXIT_SUCCESS.
C24_ParseFailureExitsAtOnce ==
    /\ [][\A p \in Procs :
            (/\ run[p].pc = "idle"
             /\ exit[p] = "none"
             /\ <<run'[p], exit'[p]>> # <<run[p], exit[p]>>
             /\ \/ OptionWithoutValue(run[p].prog, run[p].argv)
                \/ InvalidValue(run[p].prog, run[p].argv)
                \/ parse_commandline(run[p].prog, run[p].argv).ret # IQR_OK)
               =>
                /\ exit'[p] = EXIT_FAILURE
                /\ run'[p] = run[p]
                /\ files' = files
                /\ sigfile' = sigfile]_vars
    /\ [](\A p \in Procs :
            (exit[p] = EXIT_FAILURE /\ run[p].argv # <<>>) =>
                /\ files = [f \in DOMAIN files |->
                              IF f = "priv.state"
                              THEN StateBlob(0, TotalLeaves, TotalLeaves)
                              ELSE Absent]
                /\ sigfile = SigAbsent)
    /\ [][\A p \in Procs :
            (/\ run[p].pc = "cleanup"
             /\ run[p].ret = IQR_OK
             /\ run'[p].pc = "idle"
             /\ exit'[p] # "killed") =>
                exit'[p] = EXIT_SUCCESS]_vars

\* the detach program was given a --num-sigs value that is no number and
\* has exited with EXIT_FAILURE, with every file as it was
C24_Witness ==
    /\ run[1].prog = "xmss_detach"
    /\ run[1].pc = "idle"
    /\ run[1].argv = <<"--state", "priv.state", "--num-sigs", "junk">>
    /\ exit[1] = EXIT_FAILURE
    /\ files["priv.state"] = StateBlob(0, TotalLeaves, TotalLeaves)

C26_StateBuffersWiped ==
    \A p \in Procs : run[p].freed.state_raw # "unwiped"

VerifyRun(p) == run[p].prog = "xmssmt_verify"

\* the verify run of p has made its verify call and is at its end
Verified(p) ==
    /\ VerifyRun(p)
    /\ run[p].pc \in {"end", "cleanup"}
    /\ run[p].engine_calls = 1

C28_SavedMeansOnDisk ==
    [][\A p \in Procs :
         (/\ run[p].pc = "write_state"
          /\ run'[p].state_saved = IQR_OK) =>
            files'[run[p].state_file] = run[p].state_raw]_vars

\* the steps of a sign run before the engine's sign call
BeforeSign ==
    {"idle", "init_toolkit", "create_params", "load_priv", "load_state",
     "import_priv", "import_state", "get_count", "alloc_sig"}

\* C29: no step of a sign run before the engine's sign call changes a
\* state file or the signature file, whether it fails or not; a run that
\* ends before the sign call has opened neither file for writing, and
\* changes none on its way out.
C29_FailureBeforeSignKeepsFiles ==
    /\ [][\A p \in Procs :
            (/\ run[p].pc \in BeforeSign
             /\ run[p].pc = "idle" \/ SignRun(p)
             /\ <<run'[p], exit'[p]>> # <<run[p], exit[p]>>) =>
                /\ files' = files
                /\ sigfile' = sigfile
                /\ run'[p].state_saved = "none"
                /\ ~run'[p].sig_opened]_vars
    /\ [](\A p \in Procs :
            (/\ SignRun(p)
             /\ run[p].pc \in {"end", "cleanup"}
             /\ run[p].engine_calls = 0) =>
                /\ run[p].ret # IQR_OK
                /\ run[p].state_saved = "none"
                /\ ~run[p].sig_opened)
    /\ [][\A p \in Procs :
            (/\ SignRun(p)
             /\ run[p].pc \in {"end", "cleanup"}
             /\ run'[p] # run[p]) =>
                /\ files' = files
                /\ sigfile' = sigfile]_vars

\* the second sign run on the key has failed to allocate its signature
\* buffer: the first run's state and signature are on disk as they were
C29_Witness ==
    /\ SignRun(1)
    /\ run[1].pc = "end"
    /\ run[1].ret = IQR_ENOMEM
    /\ run[1].engine_calls = 0
    /\ files["priv.state"] = StateBlob(1, TotalLeaves, TotalLeaves)
    /\ sigfile = SigBlob("sig", 0, "priv.state")

\* C30: when a detach run of n >= 1 signatures returns IQR_OK and its two
\* files hold complete states, the signatures left in the parent's state
\* file and in the detached state file add up to the signatures the
\* parent's state file held before the run, whatever the two file
\* arguments are (one file is counted once).
C30_DetachConservesCapacity ==
    [][\A p \in Procs :
         (/\ DetachRun(p)
          /\ run[p].num_signatures >= 1
          /\ run[p].pc = "write_detached"
          /\ run'[p].pc = "end"
          /\ run'[p].ret = IQR_OK
          /\ IsState(files'[run[p].state_file])
          /\ IsState(files'[run[p].detached_state_file])) =>
            Remaining(run[p].loaded) =
                IF run[p].state_file = run[p].detached_state_file
                THEN Remaining(files'[run[p].state_file])
                ELSE Remaining(files'[run[p].state_file])
                       + Remaining(files'[run[p].detached_state_file])]_vars

\* the decimal value of a word that is a number, as the multiple of 2^32
\* and the rest
DecimalValue(word) ==
    CASE word = "1" -> [hi |-> 0, lo |-> 1]
      [] word = "10" -> [hi |-> 0, lo |-> 10]
      [] word = "4294967297" -> [hi |-> 1, lo |-> 1]
      [] OTHER -> [hi |-> 0, lo |-> 0]

\* C31: when the detach program accepts its command line, the number of
\* signatures the run passes to the engine's detach operation is the
\* decimal value of the last --num-sigs argument.
C31_NumSigsKeepsValue ==
    [][\A p \in Procs :
         (/\ run[p].pc = "idle"
          /\ run[p].prog = "xmss_detach"
          /\ run'[p].pc = "init_toolkit"
          /\ OptionsUpTo(run[p].prog, run[p].argv, Len(run[p].argv))) =>
            \A i \in 1 .. (Len(run[p].argv) - 1) :
               (/\ i % 2 = 1
                /\ run[p].argv[i] = "--num-sigs"
                /\ \A j \in (i + 1) .. Len(run[p].argv) :
                      j % 2 = 1 => run[p].argv[j] # "--num-sigs") =>
                  /\ DecimalValue(run[p].argv[i + 1]).hi = 0
                  /\ run'[p].num_signatures =
                        DecimalValue(run[p].argv[i + 1]).lo]_vars

\* C32: the parse_commandline loop reads only argv[j] with 1 <= j < argc:
\* the highest index it has read is below argc.
C32_ParseReadsWithinArgv ==
    \A p \in Procs :
        run[p].prog = "samwise" => run[p].high < run[p].argc

\* C33: the protocol steps of the Samwise sample run in the order
\* alice_start, bob_start, alice_get_secret, bob_get_secret: a step runs only
\* when comms, Alice and Bob are initialised, all steps before it have run
\* and none of them has failed; after a failing step no protocol step runs.
C33_ProtocolOrder ==
    [][\A p \in Procs :
         (run[p].prog = "samwise" /\ run'[p].trace # run[p].trace) =>
            /\ \A x \in Parties : run[p].inited[x]
            /\ ~run[p].failed
            /\ Len(run[p].trace) < Len(ProtocolSteps)
            /\ run'[p].trace =
                 Append(run[p].trace, ProtocolSteps[Len(run[p].trace) + 1])]_vars

\* a run in which bob_start failed has returned with two steps run
C33_Witness ==
    \E p \in Procs :
        /\ run[p].prog = "samwise"
        /\ run[p].pc = "done"
        /\ run[p].failed
        /\ run[p].trace = <<"alice_start", "bob_start">>

\* C34: the Samwise sample exits with EXIT_SUCCESS only if Alice's and
\* Bob's secrets were equal.
C34_SuccessMeansEqualSecrets ==
    \A p \in Procs :
        (run[p].prog = "samwise" /\ exit[p] = EXIT_SUCCESS) =>
            run[p].compared = "match"

\* C35: on every path through showcase_samwise each of comms, Alice and Bob
\* is cleaned up at most once and only if its init succeeded; when the
\* function has returned, each initialised party was cleaned up once and
\* the secret buffers, where they were declared, are zeroed.
C35_CleanupOnce ==
    \A p \in Procs :
        run[p].prog = "samwise" =>
            /\ \A x \in Parties :
                  run[p].cleanups[x] <= (IF run[p].inited[x] THEN 1 ELSE 0)
            /\ run[p].pc \in {"cleanup", "done"} =>
                  /\ \A x \in Parties :
                        run[p].inited[x] => run[p].cleanups[x] = 1
                  /\ run[p].alice_secret \in {"undeclared", "wiped"}
                  /\ run[p].bob_secret \in {"undeclared", "wiped"}
                  /\ run[p].trace # <<>> => run[p].alice_secret = "wiped"

\* init_bob failed: Alice and comms were cleaned up once, Bob was not
C35_Witness ==
    \E p \in Procs :
        /\ run[p].prog = "samwise"
        /\ run[p].pc = "done"
        /\ run[p].inited["alice"] /\ ~run[p].inited["bob"]
        /\ run[p].cleanups =
             [x \in Parties |-> IF x = "bob" THEN 0 ELSE 1]

\* C36: for every sequence of calls of init_alice, alice_start,
\* alice_get_secret and cleanup_alice at most one initiator private key is
\* live and none is leaked: no live key is without a handle (no call has
\* overwritten the handle of a live key), a failed alice_start leaves no
\* key of its own, and every alice_get_secret leaves no live key.
C36_OneLiveKeyNoLeak ==
    \A p \in Procs :
        run[p].prog = "newhopedh" =>
            /\ run[p].live <= 1
            /\ run[p].lost = 0
            /\ (run[p].last = "alice_start" /\ run[p].ret # IQR_OK) =>
                  run[p].live <= run[p].before
            /\ run[p].last = "alice_get_secret" => run[p].live = 0

====
